---- MODULE Spec2Model ----
(***************************************************************************)
(* State-machine model of the DroidRun automation server                   *)
(* (src/server.py), the event coordinator workflow                         *)
(* (src/event_coordinator_agent.py) and the commerce comparison CLI        *)
(* (src/commerce_agent.py).                                                *)
(*                                                                         *)
(* Every coroutine is a process whose pc names the await it is suspended   *)
(* in; one action is the code that runs on the event loop between two      *)
(* awaits.                                                                 *)
(***************************************************************************)
EXTENDS Integers, Sequences, FiniteSets, TLC

\* ------------------------------------------------------------------ bounds
MaxTasks == 2
MaxConns == 2
MaxGuests == 2
MaxLogistics == 1

\* menu = ["Butter Chicken", "Garlic Naan", "Paneer Tikka", "Coke"]
MenuLen == 4

Tasks == 1..MaxTasks
WS == 1..MaxConns

VARIABLES
    active_connections, \* ConnectionManager.active_connections: list of websockets
    wsState,            \* per websocket: position of its websocket_endpoint coroutine
    regFault,           \* exception raised out of a ConnectionManager method call
    pc,                 \* per task: the await run_agent_task / orchestrate_event is in
    payload,            \* per task: the TaskPayload fields the control flow reads
    result,             \* per task: the local variable `result` of run_agent_task
    loopIdx,            \* per task: position of the for loop of the current stage
    bc,                 \* per task: the manager.broadcast call in progress
    events,             \* per task: the messages handed to manager.broadcast, in order
    trace,              \* per task: begin/end of every stage iteration of the event workflow
    faulted,            \* per task: the stages in which a session failed
    cli,                \* the commerce_agent.py process: main_async and its locals
    response,           \* per task: what POST /task returned to its client
    sessions            \* per task: the execute_task sessions of a shopper task, in order

vars == <<active_connections, wsState, regFault, pc, payload, result, loopIdx,
          bc, events, trace, faulted, cli, response, sessions>>

Range(s) == {s[k] : k \in 1..Len(s)}

\* ------------------------------------------------------- ConnectionManager

\* list.remove(x): drops the first occurrence; ValueError when x is absent.
RECURSIVE ListRemove(_, _)
ListRemove(list, x) ==
    IF list = <<>> THEN <<>>
    ELSE IF Head(list) = x THEN Tail(list)
    ELSE <<Head(list)>> \o ListRemove(Tail(list), x)

\* ConnectionManager.disconnect: self.active_connections.remove(websocket)
disconnect(list, w) ==
    IF w \in Range(list)
    THEN [list |-> ListRemove(list, w), fault |-> "none"]
    ELSE [list |-> list, fault |-> "ValueError"]

\* broadcast without its try/except: a failed send leaves the loop
send_text_unguarded(ok) == IF ok THEN "continue" ELSE "raise"

\* try: await connection.send_text(message) / except: pass
\* the outcome of one send as seen by the for loop of broadcast
send_text(ok) == "continue"

\* bc[t]: the iterator of the for loop (idx: elements taken so far, cur: the
\* connection whose send is awaited), the broadcast calls that follow with no
\* await in between (queue, its head being the message now sent; kont: the
\* await after the last of them), and for the call in progress: the
\* connections registered when it began (start), those a send was begun to
\* (att), whether the list was appended to or removed from since (changed),
\* and whether a send raised (failed).
NoBc == [idx |-> 0, cur |-> 0, queue |-> <<>>, kont |-> "none",
         start |-> {}, att |-> {}, changed |-> FALSE, failed |-> FALSE]

\* The code a task runs from a call of manager.broadcast up to its next await:
\* for connection in self.active_connections: await connection.send_text(...)
RECURSIVE broadcast(_, _, _, _)
broadcast(queue, kont, list, evs) ==
    IF queue = <<>>
    THEN [pc |-> kont, bc |-> NoBc, events |-> evs]
    ELSE IF list = <<>>
    THEN broadcast(Tail(queue), kont, list, Append(evs, Head(queue)))
    ELSE [pc |-> "bcast",
          bc |-> [idx |-> 1, cur |-> list[1], queue |-> queue, kont |-> kont,
                  start |-> Range(list), att |-> {list[1]},
                  changed |-> FALSE, failed |-> FALSE],
          events |-> Append(evs, Head(queue))]

Terminal == {"complete", "nodata", "error"}


\* ------------------------------------------------------------ the agents

\* Outcome of one automation session (DroidAgent.run): parseable output,
\* output the parser rejects, or a raised fault.
SessionOutcomes == {"ok", "unparsable", "raise"}

\* CommerceAgent.execute_task (the SessionRunner of the specification): a
\* fault of the agent becomes a result with status failed, never an exception.
execute_task(outcome) ==
    [status |-> IF outcome = "ok" THEN "success" ELSE "failed", exc |-> FALSE]

\* RideComparisonAgent.book_cheapest_ride: a session run by the SessionRunner.
book_cheapest_ride(outcome) == [exc |-> FALSE]

\* What RideComparisonAgent.compare_rides / PharmacyAgent.compare_prices hand
\* back: a dict holding a best entry, a dict without the key, a dict whose
\* best entry is empty, or an exception.
CompareOutcomes == {"best", "nokey", "empty", "raise"}

\* full_res.get('best_deal', {"status": "failed"})
best_of(outcome) ==
    CASE outcome = "best"  -> "success"
      [] outcome = "nokey" -> "failed"
      [] OTHER             -> "falsy"

\* _run_whatsapp_task without its try/except: the fault of agent.run() leaves it
run_whatsapp_task_unguarded(outcome) ==
    [ret |-> outcome # "raise", exc |-> outcome = "raise"]

\* EventCoordinatorAgent._run_whatsapp_task:
\*   try: await agent.run(); return True / except Exception: return False
run_whatsapp_task(outcome) == [ret |-> outcome # "raise", exc |-> FALSE]

\* ------------------------------------------------- event workflow control

\* invite_guests returning from inside its loop, after the first guest
invite_guests_first_only(i, nG) ==
    IF i < nG /\ i < 1 THEN <<"invite", i + 1>> ELSE <<"prefs", 0>>

\* for guest in guest_list: the await that follows the cooldown of guest i
invite_guests(i, nG) ==
    IF i < nG THEN <<"invite", i + 1>> ELSE <<"prefs", 0>>

\* for req in guest_needs: the await that follows request i
coordinate_logistics(i, nL) ==
    IF i < nL THEN <<"logistics", i + 1>> ELSE <<"returned", 0>>

\* the invite loop without its await asyncio.sleep(2)
orchestrate_event_no_cooldown(stage, i, nG, nL) ==
    CASE stage = "enter"     -> invite_guests(0, nG)
      [] stage = "invite"    -> invite_guests(i, nG)
      [] stage = "cooldown"  -> invite_guests(i, nG)
      [] stage = "prefs"     -> <<"order", 1>>
      [] stage = "order"     -> IF i < MenuLen THEN <<"order", i + 1>>
                                ELSE coordinate_logistics(0, nL)
      [] stage = "logistics" -> coordinate_logistics(i, nL)

\* orchestrate_event: the await that follows the completed iteration i of
\* `stage` ("enter": the call itself).
orchestrate_event(stage, i, nG, nL) ==
    CASE stage = "enter"     -> invite_guests(0, nG)
      [] stage = "invite"    -> <<"cooldown", i>>
      [] stage = "cooldown"  -> invite_guests(i, nG)
      [] stage = "prefs"     -> <<"order", 1>>
      [] stage = "order"     -> IF i < MenuLen THEN <<"order", i + 1>>
                                ELSE coordinate_logistics(0, nL)
      [] stage = "logistics" -> coordinate_logistics(i, nL)

\* ------------------------------------------------------- run_agent_task

Truthy(res) == res \in {"success", "failed"}

\* the final broadcast without its else branch
final_broadcast_no_else(res) == IF Truthy(res) THEN <<"complete">> ELSE <<>>

\* if result: broadcast("Task Complete ...") else: broadcast("Task Failed ...")
final_broadcast(res) == IF Truthy(res) THEN <<"complete">> ELSE <<"nodata">>

\* except Exception as e: broadcast("Error: ...")
except_broadcast == <<"error">>

Apply(t, r, res, idx) ==
    /\ pc' = [pc EXCEPT ![t] = r.pc]
    /\ bc' = [bc EXCEPT ![t] = r.bc]
    /\ events' = [events EXCEPT ![t] = r.events]
    /\ result' = [result EXCEPT ![t] = res]
    /\ loopIdx' = [loopIdx EXCEPT ![t] = idx]

\* POST /task awaiting the workflow itself: no response while it runs
create_task_awaits(t, p) ==
    /\ pc[t] = "idle"
    /\ \A u \in Tasks : u < t => pc[u] # "idle"
    /\ pc' = [pc EXCEPT ![t] = "spawned"]
    /\ payload' = [payload EXCEPT ![t] = p]
    /\ UNCHANGED <<response, sessions, cli, active_connections, wsState, regFault,
                   result, loopIdx, bc, events, trace, faulted>>

\* POST /task: asyncio.create_task(run_agent_task(payload)); return accepted
create_task(t, p) ==
    /\ pc[t] = "idle"
    /\ \A u \in Tasks : u < t => pc[u] # "idle"
    /\ pc' = [pc EXCEPT ![t] = "spawned"]
    /\ payload' = [payload EXCEPT ![t] = p]
    /\ response' = [response EXCEPT ![t] = "accepted"]
    /\ UNCHANGED <<sessions, cli, active_connections, wsState, regFault, result,
                   loopIdx, bc, events, trace, faulted>>

\* run_agent_task from its first line to the first await it suspends in:
\* the start broadcast, the persona dispatch and the progress broadcast.
run_agent_task(t) ==
    /\ pc[t] = "spawned"
    /\ LET p == payload[t]
           first == orchestrate_event("enter", 0, p.nGuests, p.nLogistics)
           queue == IF p.persona \in {"shopper", "rider", "patient", "coordinator"}
                    THEN <<"start", "progress">>
                    ELSE <<"start">> \o final_broadcast("None")
           kont == CASE p.persona = "shopper"     -> "amazon"
                     [] p.persona = "rider"       -> "rides"
                     [] p.persona = "patient"     -> "pharmacy"
                     [] p.persona = "coordinator" -> first[1]
                     [] OTHER                     -> "done"
           idx == IF p.persona = "coordinator" THEN first[2] ELSE 0
       IN Apply(t, broadcast(queue, kont, active_connections, events[t]),
                "None", idx)
    /\ UNCHANGED <<response, sessions, cli, active_connections, wsState, regFault, payload,
                   trace, faulted>>

\* The tail of run_agent_task once the persona branch has set `result`
\* (exc: the branch raised instead).
finish(t, res, exc) ==
    Apply(t, broadcast(IF exc THEN except_broadcast ELSE final_broadcast(res),
                       "done", active_connections, events[t]),
          res, 0)

\* one entry of sessions: the platform execute_task was called for and what
\* the call handed back
ran(plat, r) == [platform |-> plat, status |-> IF r.exc THEN "raised" ELSE r.status]

\* result = await agent.execute_task("Amazon", ...) returns
amazon_done(t, outcome) ==
    /\ pc[t] = "amazon"
    /\ LET r == execute_task(outcome)
       IN IF r.exc THEN finish(t, result[t], TRUE)
          ELSE IF r.status = "failed"
          THEN Apply(t, broadcast(<<"progress">>, "flipkart", active_connections,
                                  events[t]), r.status, 0)
          ELSE finish(t, r.status, FALSE)
    /\ sessions' = [sessions EXCEPT ![t] = Append(@, ran("Amazon", execute_task(outcome)))]
    /\ UNCHANGED <<response, cli, active_connections, wsState, regFault, payload, trace,
                   faulted>>

\* the Flipkart session run with its result thrown away
flipkart_done_result_dropped(t, outcome) ==
    /\ pc[t] = "flipkart"
    /\ finish(t, result[t], FALSE)
    /\ sessions' = [sessions EXCEPT ![t] = Append(@, ran("Flipkart", execute_task(outcome)))]
    /\ UNCHANGED <<response, cli, active_connections, wsState, regFault, payload, trace,
                   faulted>>

\* result = await agent.execute_task("Flipkart", ...) returns
flipkart_done(t, outcome) ==
    /\ pc[t] = "flipkart"
    /\ LET r == execute_task(outcome)
       IN IF r.exc THEN finish(t, result[t], TRUE)
          ELSE finish(t, r.status, FALSE)
    /\ sessions' = [sessions EXCEPT ![t] = Append(@, ran("Flipkart", execute_task(outcome)))]
    /\ UNCHANGED <<response, cli, active_connections, wsState, regFault, payload, trace,
                   faulted>>

\* full_res = await agent.compare_rides(...) / agent.compare_prices(...) returns
compare_done(t, outcome) ==
    /\ pc[t] \in {"rides", "pharmacy"}
    /\ finish(t, IF outcome = "raise" THEN result[t] ELSE best_of(outcome),
              outcome = "raise")
    /\ UNCHANGED <<response, sessions, cli, active_connections, wsState, regFault, payload,
                   trace, faulted>>

\* The event workflow moves on after iteration loopIdx[t] of stage pc[t]
\* (exc: the iteration raised out of orchestrate_event).  In the server the
\* return of orchestrate_event sets result and reaches the final broadcast;
\* under the module's own main() the coroutine simply ends.
advance(t, exc) ==
    LET p == payload[t]
        nxt == orchestrate_event(pc[t], loopIdx[t], p.nGuests, p.nLogistics)
    IN IF exc
       THEN IF p.persona = "coordinator"
            THEN finish(t, result[t], TRUE)
            ELSE /\ pc' = [pc EXCEPT ![t] = "crashed"]
                 /\ UNCHANGED <<bc, events, result, loopIdx>>
       ELSE IF nxt[1] = "returned"
       THEN IF p.persona = "coordinator"
            THEN finish(t, "success", FALSE)
            ELSE /\ pc' = [pc EXCEPT ![t] = "done"]
                 /\ UNCHANGED <<bc, events, result, loopIdx>>
       ELSE /\ pc' = [pc EXCEPT ![t] = nxt[1]]
            /\ loopIdx' = [loopIdx EXCEPT ![t] = nxt[2]]
            /\ UNCHANGED <<bc, events, result>>

Completed(t) == Append(trace[t], <<pc[t], loopIdx[t]>>)

\* await self._run_whatsapp_task(guest['name'], invite_msg) returns
invite_done(t, outcome) ==
    /\ pc[t] = "invite"
    /\ LET r == run_whatsapp_task(outcome)
       IN /\ advance(t, r.exc)
          /\ trace' = [trace EXCEPT ![t] = IF r.exc THEN @ ELSE Completed(t)]
    /\ faulted' = [faulted EXCEPT ![t] =
                      IF run_whatsapp_task(outcome).ret THEN @ ELSE @ \cup {"invite"}]
    /\ UNCHANGED <<response, sessions, cli, active_connections, wsState, regFault, payload>>

\* await asyncio.sleep(2) returns
cooldown_done(t) ==
    /\ pc[t] = "cooldown"
    /\ advance(t, FALSE)
    /\ UNCHANGED <<response, sessions, cli, active_connections, wsState, regFault, payload,
                   trace, faulted>>

\* collect_preferences_and_build_menu: await asyncio.sleep(1) returns
prefs_done(t) ==
    /\ pc[t] = "prefs"
    /\ advance(t, FALSE)
    /\ trace' = [trace EXCEPT ![t] = Completed(t)]
    /\ UNCHANGED <<response, sessions, cli, active_connections, wsState, regFault, payload,
                   faulted>>

\* await self.commerce_agent.execute_task("Swiggy", item, "food", action="order")
order_done(t, outcome) ==
    /\ pc[t] = "order"
    /\ LET r == execute_task(outcome)
       IN /\ advance(t, r.exc)
          /\ trace' = [trace EXCEPT ![t] = IF r.exc THEN @ ELSE Completed(t)]
    /\ faulted' = [faulted EXCEPT ![t] =
                      IF execute_task(outcome).status = "success" THEN @
                      ELSE @ \cup {"order"}]
    /\ UNCHANGED <<response, sessions, cli, active_connections, wsState, regFault, payload>>

\* await self.ride_agent.book_cheapest_ride(req['pickup'], req['drop'])
logistics_done(t, outcome) ==
    /\ pc[t] = "logistics"
    /\ LET r == book_cheapest_ride(outcome)
       IN /\ advance(t, r.exc)
          /\ trace' = [trace EXCEPT ![t] = IF r.exc THEN @ ELSE Completed(t)]
    /\ faulted' = [faulted EXCEPT ![t] = IF outcome = "ok" THEN @ ELSE @ \cup {"logistics"}]
    /\ UNCHANGED <<response, sessions, cli, active_connections, wsState, regFault, payload>>

\* ------------------------------------------------------------- broadcast

\* await connection.send_text(message) returns or raises (ok = FALSE); the
\* for loop then takes the next element of the list as it is now, or ends.
send_done(t, ok) ==
    /\ pc[t] = "bcast"
    /\ LET b == [bc[t] EXCEPT !.failed = @ \/ ~ok]
           list == active_connections
       IN IF send_text(ok) = "raise"
          THEN /\ pc' = [pc EXCEPT ![t] = "crashed"]
               /\ bc' = [bc EXCEPT ![t] = NoBc]
               /\ UNCHANGED <<events, result, loopIdx>>
          ELSE IF b.idx < Len(list)
          THEN /\ bc' = [bc EXCEPT ![t] = [b EXCEPT !.idx = @ + 1,
                                                    !.cur = list[b.idx + 1],
                                                    !.att = @ \cup {list[b.idx + 1]}]]
               /\ UNCHANGED <<pc, events, result, loopIdx>>
          ELSE Apply(t, broadcast(Tail(b.queue), b.kont, list, events[t]),
                     result[t], loopIdx[t])
    /\ UNCHANGED <<response, sessions, cli, active_connections, wsState, regFault, payload,
                   trace, faulted>>

\* ------------------------------------------------------ websocket_endpoint

\* every broadcast call in progress has seen the list change under it
Touched ==
    [t \in Tasks |-> IF pc[t] = "bcast" THEN [bc[t] EXCEPT !.changed = TRUE] ELSE bc[t]]

restVars == <<pc, payload, result, loopIdx, events, trace, faulted, cli, response,
              sessions>>

\* a client opens /ws: await manager.connect(websocket), that is accept() and
\* self.active_connections.append(websocket); then the endpoint waits in
\* receive_text()
connect(w) ==
    /\ wsState[w] = "new"
    /\ \A v \in WS : v < w => wsState[v] # "new"
    /\ active_connections' = Append(active_connections, w)
    /\ wsState' = [wsState EXCEPT ![w] = "open"]
    /\ bc' = Touched
    /\ UNCHANGED <<regFault, restVars>>

\* receive_text() raises WebSocketDisconnect: manager.disconnect(websocket)
websocket_endpoint(w) ==
    /\ wsState[w] = "open"
    /\ LET d == disconnect(active_connections, w)
       IN /\ active_connections' = d.list
          /\ regFault' = d.fault
          /\ bc' = IF d.fault = "none" THEN Touched ELSE bc
    /\ wsState' = [wsState EXCEPT ![w] = "closed"]
    /\ UNCHANGED restVars

\* ------------------------------------------------------ commerce_agent.py

\* A string is a sequence of characters.  A float is held in hundredths; the
\* strings the model feeds carry at most two digits after the point.
Scale == 10 * 10

\* float('inf')
Inf == 1000000000

MaxItems == 2

DigitVal(c) ==
    CASE c = "0" -> 0 [] c = "1" -> 1 [] c = "2" -> 2 [] c = "3" -> 3 [] c = "4" -> 4
      [] c = "5" -> 5 [] c = "6" -> 6 [] c = "7" -> 7 [] c = "8" -> 8 [] c = "9" -> 9

IsDigit(c) == c \in {"0", "1", "2", "3", "4", "5", "6", "7", "8", "9"}

\* str.replace(',', '')
RemoveCommas(s) == SelectSeq(s, LAMBDA c : c # ",")

\* str.strip()
RECURSIVE LStrip(_)
LStrip(s) == IF s = <<>> THEN s ELSE IF Head(s) = " " THEN LStrip(Tail(s)) ELSE s

RECURSIVE RStrip(_)
RStrip(s) ==
    IF s = <<>> THEN s
    ELSE IF s[Len(s)] = " " THEN RStrip(SubSeq(s, 1, Len(s) - 1)) ELSE s

StrStrip(s) == RStrip(LStrip(s))

\* the length of the longest run of digits of s that starts at position i
DigitRun(s, i) ==
    LET stops == {j \in i..Len(s) : ~IsDigit(s[j])}
    IN IF i > Len(s) THEN 0
       ELSE IF stops = {} THEN Len(s) - i + 1
       ELSE (CHOOSE j \in stops : \A k \in stops : j <= k) - i

\* re.search(r'\d+(\.\d+)?', s): the leftmost match, each part greedy
re_search(s) ==
    LET digits == {i \in 1..Len(s) : IsDigit(s[i])}
    IN IF digits = {}
       THEN [found |-> FALSE, int |-> <<>>, frac |-> <<>>]
       ELSE LET i == CHOOSE k \in digits : \A j \in digits : k <= j
                j == i + DigitRun(s, i)
                m == IF j + 1 > Len(s) THEN 0
                     ELSE IF s[j] = "." THEN DigitRun(s, j + 1) ELSE 0
            IN [found |-> TRUE, int |-> SubSeq(s, i, j - 1),
                frac |-> SubSeq(s, j + 1, j + m)]

RECURSIVE IntOf(_)
IntOf(ds) ==
    IF ds = <<>> THEN 0
    ELSE IntOf(SubSeq(ds, 1, Len(ds) - 1)) * 10 + DigitVal(ds[Len(ds)])

\* the largest finite float, 1.797...e308, has 309 digits before the point
FloatDigits == 309

\* the digits from the first that is not a zero
LStripZeros(ds) ==
    LET nonzero == {j \in 1..Len(ds) : ds[j] # "0"}
    IN IF nonzero = {} THEN <<>>
       ELSE SubSeq(ds, CHOOSE j \in nonzero : \A k \in nonzero : j <= k, Len(ds))

\* float(match.group()): a numeral of more than FloatDigits digits before the
\* point lies above every finite float and converts to inf (the numerals the
\* model feeds have fewer than FloatDigits digits, or more)
to_float(m) ==
    IF Len(LStripZeros(m.int)) > FloatDigits THEN Inf
    ELSE IntOf(m.int) * Scale
         + (IF Len(m.frac) >= 1 THEN DigitVal(m.frac[1]) * 10 ELSE 0)
         + (IF Len(m.frac) >= 2 THEN DigitVal(m.frac[2]) ELSE 0)

parse_price(price_str) ==
    LET m == re_search(StrStrip(RemoveCommas(price_str)))
    IN IF m.found THEN to_float(m) ELSE Inf

parse_rating(rating_str) ==
    LET m == re_search(StrStrip(rating_str))
    IN IF m.found THEN to_float(m) ELSE 0

\* The text an agent run hands back is a sequence of chunks: a fence carrying
\* the json tag, a bare fence, white space, prose, or a piece of JSON text: an
\* array of objects, one object, an array of numbers, or an array cut short.
Chunk(k) == [k |-> k, items |-> <<>>]

JsonKinds == {"array", "object", "array_of_numbers", "broken_array"}

HasChunk(text, kinds) == \E i \in 1..Len(text) : text[i].k \in kinds

FirstChunk(text, kinds) ==
    CHOOSE i \in 1..Len(text) :
        text[i].k \in kinds /\ \A j \in 1..(i - 1) : text[j].k \notin kinds

\* s.split(sep)[0]
BeforeSep(text, kinds) ==
    IF HasChunk(text, kinds) THEN SubSeq(text, 1, FirstChunk(text, kinds) - 1) ELSE text

\* s.split(sep)[1], sep occurring in s
AfterSep(text, kinds) ==
    BeforeSep(SubSeq(text, FirstChunk(text, kinds) + 1, Len(text)), kinds)

RECURSIVE TextLStrip(_)
TextLStrip(text) ==
    IF text = <<>> THEN text
    ELSE IF Head(text).k = "space" THEN TextLStrip(Tail(text)) ELSE text

RECURSIVE TextRStrip(_)
TextRStrip(text) ==
    IF text = <<>> THEN text
    ELSE IF text[Len(text)].k = "space"
    THEN TextRStrip(SubSeq(text, 1, Len(text) - 1)) ELSE text

TextStrip(text) == TextRStrip(TextLStrip(text))

\* "```" occurs in the text wherever "```json" does
AnyFence == {"fence", "fence_json"}

\* json_str = str(output).strip() and the two fence branches
strip_fence(output) ==
    LET json_str == TextStrip(output)
    IN IF HasChunk(json_str, {"fence_json"})
       THEN TextStrip(BeforeSep(AfterSep(json_str, {"fence_json"}), AnyFence))
       ELSE IF HasChunk(json_str, AnyFence)
       THEN TextStrip(BeforeSep(AfterSep(json_str, AnyFence), AnyFence))
       ELSE json_str

\* item.get(key, default)
get(item, key, default) == IF key \in item.keys THEN item[key] ELSE default

DefaultPrice == <<"9", "9", "9", "9", "9", "9">>
DefaultRating == <<"0">>

\* item['numeric_price'] = ...; item['numeric_rating'] = ...
normalize(item) ==
    [title |-> item.title, price |-> item.price, rating |-> item.rating,
     keys |-> item.keys,
     numeric_price |-> parse_price(get(item, "price", DefaultPrice)),
     numeric_rating |-> parse_rating(get(item, "rating", DefaultRating))]

\* the order of key=lambda x: (x['numeric_price'], -x['numeric_rating'])
KeyLess(x, y) ==
    \/ x.numeric_price < y.numeric_price
    \/ x.numeric_price = y.numeric_price /\ x.numeric_rating > y.numeric_rating

\* list.sort: stable
RECURSIVE SortInsert(_, _)
SortInsert(sorted, x) ==
    IF sorted = <<>> THEN <<x>>
    ELSE IF KeyLess(x, Head(sorted)) THEN <<x>> \o sorted
    ELSE <<Head(sorted)>> \o SortInsert(Tail(sorted), x)

\* valid_items left in the order the agent reported them
sort_skipped(items) == items

RECURSIVE sort(_)
sort(items) ==
    IF items = <<>> THEN <<>>
    ELSE SortInsert(sort(SubSeq(items, 1, Len(items) - 1)), items[Len(items)])

\* json.loads(json_str) is called and returns
json_loads_returns(output) ==
    LET json_str == strip_fence(output)
    IN /\ json_str # <<>>
       /\ Head(json_str).k \in JsonKinds \ {"broken_array"}
       /\ Len(json_str) = 1

\* json.loads(json_str) or the loop over the decoded items raises
parse_raises(output) ==
    LET json_str == strip_fence(output)
    IN /\ json_str # <<>>
       /\ Head(json_str).k \in JsonKinds
       /\ ~json_loads_returns(output) \/ Head(json_str).k = "array_of_numbers"

\* result_data["status"] = "success" moved before the loop over the items
parse_result_status_first(app_name, output) ==
    LET json_str == strip_fence(output)
        failed == [platform |-> app_name, status |-> "failed", items |-> <<>>,
                   best_item |-> <<>>, raw_response |-> output]
    IN IF json_str = <<>> THEN failed
       ELSE IF Head(json_str).k \notin JsonKinds THEN failed
       ELSE IF Len(json_str) # 1 \/ Head(json_str).k = "broken_array" THEN failed
       ELSE IF Head(json_str).k = "array_of_numbers"
       THEN [failed EXCEPT !.status = "success"]
       ELSE LET items == Head(json_str).items
                normalized == [k \in 1..Len(items) |-> normalize(items[k])]
                valid_items == sort(SelectSeq(normalized, LAMBDA x : x.numeric_price > 0))
            IN [platform |-> app_name, status |-> "success", items |-> valid_items,
                best_item |-> IF valid_items = <<>> THEN <<>> ELSE <<valid_items[1]>>,
                raw_response |-> output]

\* the body of perform_search after the agent has run: result_data
parse_result(app_name, output) ==
    LET json_str == strip_fence(output)
        failed == [platform |-> app_name, status |-> "failed", items |-> <<>>,
                   best_item |-> <<>>, raw_response |-> output]
    IN IF json_str = <<>> THEN failed
       ELSE IF Head(json_str).k \notin JsonKinds THEN failed
       \* json.loads raises on text that is not one JSON value
       ELSE IF Len(json_str) # 1 \/ Head(json_str).k = "broken_array" THEN failed
       \* item.get raises on an element that is no dict
       ELSE IF Head(json_str).k = "array_of_numbers" THEN failed
       ELSE LET items == Head(json_str).items
                normalized == [k \in 1..Len(items) |-> normalize(items[k])]
                valid_items == sort(SelectSeq(normalized, LAMBDA x : x.numeric_price > 0))
            IN [platform |-> app_name, status |-> "success", items |-> valid_items,
                best_item |-> IF valid_items = <<>> THEN <<>> ELSE <<valid_items[1]>>,
                raw_response |-> output]

\* perform_search: output = await agent.run() is outside the try block
perform_search(app_name, outcome) ==
    IF outcome.raise
    THEN [exc |-> TRUE, result_data |-> <<>>]
    ELSE [exc |-> FALSE, result_data |-> <<parse_result(app_name, outcome.text)>>]

Platforms(task) ==
    IF task = "shopping" THEN <<"Amazon", "Flipkart">> ELSE <<"Zomato", "Swiggy">>

NoRecommendation == [kind |-> "none", platform |-> "None"]

\* the comparison with >= in place of > in the rating tie-break
comparison_logic_ge(param1, param2, platforms) ==
    IF param1 # <<>> /\ param2 # <<>>
    THEN IF param1[1].numeric_price < param2[1].numeric_price
         THEN [winner_platform |-> platforms[1],
               recommendation |-> [kind |-> "cheaper", platform |-> platforms[1]]]
         ELSE IF param2[1].numeric_price < param1[1].numeric_price
         THEN [winner_platform |-> platforms[2],
               recommendation |-> [kind |-> "cheaper", platform |-> platforms[2]]]
         ELSE IF param1[1].numeric_rating >= param2[1].numeric_rating
         THEN [winner_platform |-> platforms[1],
               recommendation |-> [kind |-> "better rating", platform |-> platforms[1]]]
         ELSE [winner_platform |-> platforms[2],
               recommendation |-> [kind |-> "better rating", platform |-> platforms[2]]]
    ELSE IF param1 # <<>>
    THEN [winner_platform |-> platforms[1],
          recommendation |-> [kind |-> "only found on", platform |-> platforms[1]]]
    ELSE IF param2 # <<>>
    THEN [winner_platform |-> platforms[2],
          recommendation |-> [kind |-> "only found on", platform |-> platforms[2]]]
    ELSE [winner_platform |-> "None", recommendation |-> NoRecommendation]

\* main_async, "Comparison Logic": best_platform and recommendation
comparison_logic(param1, param2, platforms) ==
    IF param1 # <<>> /\ param2 # <<>>
    THEN IF param1[1].numeric_price < param2[1].numeric_price
         THEN [winner_platform |-> platforms[1],
               recommendation |-> [kind |-> "cheaper", platform |-> platforms[1]]]
         ELSE IF param2[1].numeric_price < param1[1].numeric_price
         THEN [winner_platform |-> platforms[2],
               recommendation |-> [kind |-> "cheaper", platform |-> platforms[2]]]
         ELSE IF param1[1].numeric_rating > param2[1].numeric_rating
         THEN [winner_platform |-> platforms[1],
               recommendation |-> [kind |-> "better rating", platform |-> platforms[1]]]
         ELSE [winner_platform |-> platforms[2],
               recommendation |-> [kind |-> "better rating", platform |-> platforms[2]]]
    ELSE IF param1 # <<>>
    THEN [winner_platform |-> platforms[1],
          recommendation |-> [kind |-> "only found on", platform |-> platforms[1]]]
    ELSE IF param2 # <<>>
    THEN [winner_platform |-> platforms[2],
          recommendation |-> [kind |-> "only found on", platform |-> platforms[2]]]
    ELSE [winner_platform |-> "None", recommendation |-> NoRecommendation]

\* final_output
final_output(task, results) ==
    LET verdict == comparison_logic(results[1].best_item, results[2].best_item,
                                    Platforms(task))
    IN [query |-> "query", category |-> task, winner_platform |-> verdict.winner_platform,
        recommendation |-> verdict.recommendation, details |-> results]

\* cli: pc, args.task, the platforms perform_search has been called for
\* (started), what agent.run() returned in each (outputs), the results stored
\* (results), the summary printed (out), and whether a fault left main_async
NoCli == [pc |-> "none", task |-> "none", started |-> <<>>, outputs |-> <<>>,
          results |-> <<>>, out |-> <<>>, raised |-> FALSE]

\* every perform_search called at once, as asyncio.gather would
next_search_gather(started, results, platforms) == platforms

\* for plat in platforms: res = await perform_search(plat, ...): the calls
\* made once `results` holds the results of the calls that have returned
next_search(started, results, platforms) ==
    IF Len(results) < Len(platforms)
    THEN Append(started, platforms[Len(results) + 1])
    ELSE started

\* res = await perform_search(plat, args.query, item_type) returns or raises;
\* after the second platform the comparison runs and the summary is printed
main_async(outcome) ==
    /\ cli.pc = "search"
    /\ LET plat == Platforms(cli.task)[Len(cli.results) + 1]
           res == perform_search(plat, outcome)
           results == cli.results \o res.result_data
           started == next_search(cli.started, results, Platforms(cli.task))
           outputs == Append(cli.outputs, outcome.text)
       IN cli' = IF res.exc
                 THEN [cli EXCEPT !.pc = "crashed", !.raised = TRUE]
                 ELSE IF Len(results) < Len(Platforms(cli.task))
                 THEN [cli EXCEPT !.results = results, !.outputs = outputs,
                                  !.started = started]
                 ELSE [cli EXCEPT !.results = results, !.outputs = outputs,
                                  !.started = started, !.pc = "done",
                                  !.out = <<final_output(cli.task, results)>>]
    /\ UNCHANGED <<active_connections, wsState, regFault, pc, payload, result,
                   loopIdx, bc, events, trace, faulted, response, sessions>>

\* ------------------------------------------------------------ the server

Personas == {"shopper", "rider", "patient", "coordinator", "other"}

\* the payloads of POST /task; run_agent_task passes logistics = []
Payloads ==
    {[persona |-> q, nGuests |-> 0, nLogistics |-> 0] : q \in Personas \ {"coordinator"}}
    \cup {[persona |-> "coordinator", nGuests |-> n, nLogistics |-> 0] : n \in 0..MaxGuests}

NoPayload == [persona |-> "none", nGuests |-> 0, nLogistics |-> 0]

Init ==
    /\ active_connections = <<>>
    /\ wsState = [w \in WS |-> "new"]
    /\ regFault = "none"
    /\ pc = [t \in Tasks |-> "idle"]
    /\ payload = [t \in Tasks |-> NoPayload]
    /\ result = [t \in Tasks |-> "None"]
    /\ loopIdx = [t \in Tasks |-> 0]
    /\ bc = [t \in Tasks |-> NoBc]
    /\ events = [t \in Tasks |-> <<>>]
    /\ trace = [t \in Tasks |-> <<>>]
    /\ faulted = [t \in Tasks |-> {}]
    /\ response = [t \in Tasks |-> "none"]
    /\ sessions = [t \in Tasks |-> <<>>]
    /\ cli = NoCli

\* The server: POST /task and /ws clients arriving in any order, every
\* coroutine resuming whenever the await it is suspended in completes.
ServerStep(T, C) ==
    \/ \E t \in T, p \in Payloads : create_task(t, p)
    \/ \E t \in T : run_agent_task(t)
    \/ \E t \in T, o \in SessionOutcomes : amazon_done(t, o)
    \/ \E t \in T, o \in SessionOutcomes : flipkart_done(t, o)
    \/ \E t \in T, o \in CompareOutcomes : compare_done(t, o)
    \/ \E t \in T, o \in SessionOutcomes : invite_done(t, o)
    \/ \E t \in T : cooldown_done(t)
    \/ \E t \in T : prefs_done(t)
    \/ \E t \in T, o \in SessionOutcomes : order_done(t, o)
    \/ \E t \in T, ok \in BOOLEAN : send_done(t, ok)
    \/ \E w \in C : connect(w)
    \/ \E w \in C : websocket_endpoint(w)

Next == ServerStep(Tasks, WS)

Spec == Init /\ [][Next]_vars

\* The server with fewer tasks and clients.
SoloTasks == 1
SoloConns == 1

NextSolo == ServerStep(1..SoloTasks, 1..SoloConns)

SpecSolo == Init /\ [][NextSolo]_vars

\* what the event loop does for task t once the await it is suspended in is over
TaskStep(t) ==
    \/ run_agent_task(t)
    \/ \E o \in SessionOutcomes : amazon_done(t, o)
    \/ \E o \in SessionOutcomes : flipkart_done(t, o)
    \/ \E o \in CompareOutcomes : compare_done(t, o)
    \/ \E o \in SessionOutcomes : invite_done(t, o)
    \/ cooldown_done(t)
    \/ prefs_done(t)
    \/ \E o \in SessionOutcomes : order_done(t, o)
    \/ \E ok \in BOOLEAN : send_done(t, ok)

\* ------------------------------------- ConnectionManager under any caller

MaxCallers == 1
MaxCalls == 2

\* some coroutine calls await manager.broadcast(message)
call_broadcast(t) ==
    /\ pc[t] = "idle"
    /\ Len(events[t]) < MaxCalls
    /\ Apply(t, broadcast(<<"message">>, "idle", active_connections, events[t]),
             result[t], loopIdx[t])
    /\ UNCHANGED <<response, sessions, cli, active_connections, wsState, regFault, payload,
                   trace, faulted>>

\* some caller calls manager.disconnect(websocket), whatever the websocket
manager_disconnect(w) ==
    /\ LET d == disconnect(active_connections, w)
       IN /\ active_connections' = d.list
          /\ regFault' = d.fault
          /\ bc' = IF d.fault = "none" THEN Touched ELSE bc
    /\ UNCHANGED <<wsState, restVars>>

NextManager ==
    \/ \E t \in 1..MaxCallers : call_broadcast(t)
    \/ \E t \in 1..MaxCallers, ok \in BOOLEAN : send_done(t, ok)
    \/ \E w \in WS : connect(w)
    \/ \E w \in WS : websocket_endpoint(w)
    \/ \E w \in WS : manager_disconnect(w)

SpecManager == Init /\ [][NextManager]_vars

\* ------------------------------------- event_coordinator_agent.py main()

\* asyncio.run(main()): one orchestrate_event call, suspended in its first await
InitEvent ==
    /\ active_connections = <<>>
    /\ wsState = [w \in WS |-> "new"]
    /\ regFault = "none"
    /\ \E nG \in 0..MaxGuests, nL \in 0..MaxLogistics :
          LET first == orchestrate_event("enter", 0, nG, nL)
          IN /\ payload = [t \in Tasks |->
                             IF t = 1
                             THEN [persona |-> "main", nGuests |-> nG, nLogistics |-> nL]
                             ELSE NoPayload]
             /\ pc = [t \in Tasks |-> IF t = 1 THEN first[1] ELSE "idle"]
             /\ loopIdx = [t \in Tasks |-> IF t = 1 THEN first[2] ELSE 0]
    /\ result = [t \in Tasks |-> "None"]
    /\ bc = [t \in Tasks |-> NoBc]
    /\ events = [t \in Tasks |-> <<>>]
    /\ trace = [t \in Tasks |-> <<>>]
    /\ faulted = [t \in Tasks |-> {}]
    /\ response = [t \in Tasks |-> "none"]
    /\ sessions = [t \in Tasks |-> <<>>]
    /\ cli = NoCli

NextEvent ==
    \/ \E o \in SessionOutcomes : invite_done(1, o)
    \/ cooldown_done(1)
    \/ prefs_done(1)
    \/ \E o \in SessionOutcomes : order_done(1, o)
    \/ \E o \in SessionOutcomes : logistics_done(1, o)

SpecEvent == InitEvent /\ [][NextEvent]_vars

\* ------------------------------------------------ commerce_agent.py main()

Item(title, price, rating, keys) ==
    [title |-> title, price |-> price, rating |-> rating, keys |-> keys]

AllKeys == {"title", "price", "rating"}

\* the objects an agent reports
ItemPool ==
    { Item("a", <<"$", "1">>, <<"4">>, AllKeys),
      Item("b", <<"1">>, <<"4", ".", "5", " ", "s">>, AllKeys),
      Item("c", <<"2">>, <<"4", ".", "5">>, AllKeys),
      Item("d", <<"N", "A">>, <<>>, {"title", "price"}),
      Item("e", <<"0">>, <<"5">>, AllKeys) }

RECURSIVE ItemLists(_)
ItemLists(n) ==
    IF n = 0 THEN {<<>>}
    ELSE LET shorter == ItemLists(n - 1)
         IN shorter \cup {Append(l, i) : l \in {x \in shorter : Len(x) = n - 1},
                                          i \in ItemPool}

Array(l) == [k |-> "array", items |-> l]

\* "```json\n" + text + "\n```"
Wrap(text) ==
    <<Chunk("fence_json"), Chunk("space")>> \o text \o <<Chunk("space"), Chunk("fence")>>

\* [{"title": "```[]```", "price": "5"}]: one JSON item list whose title holds
\* a fenced array; cut at its fences the text is an array cut short, a fence,
\* an empty array, a fence, and a rest that opens with neither [ nor {
FencedTitle ==
    <<Chunk("broken_array"), Chunk("fence"), Array(<<>>), Chunk("fence"), Chunk("prose")>>

\* texts that are, as a whole, one JSON item list
ItemListTexts == {<<Array(l)>> : l \in ItemLists(1)} \cup {FencedTitle}

\* the texts an agent run returns
AgentTexts ==
    {<<Array(l)>> : l \in ItemLists(MaxItems)}
    \cup ItemListTexts \cup {Wrap(x) : x \in ItemListTexts}
    \cup {<<Chunk("prose"), Chunk("fence_json"), Chunk("space"), Array(l),
            Chunk("space"), Chunk("fence"), Chunk("prose")>> : l \in ItemLists(1)}
    \cup {<<Chunk("fence"), Array(l), Chunk("fence")>> : l \in ItemLists(1)}
    \cup {<<Chunk("space"), [k |-> "object", items |-> <<i>>]>> : i \in ItemPool}
    \cup { <<>>, <<Chunk("prose")>>, <<Chunk("broken_array")>>,
           <<Chunk("array_of_numbers")>>,
           <<Array(<<>>), Chunk("prose")>>,
           <<Chunk("fence"), Chunk("prose"), Array(<<>>), Chunk("fence")>> }

\* what await agent.run() does: return a text or raise
AgentOutcomes ==
    {[raise |-> FALSE, text |-> x] : x \in AgentTexts}
    \cup {[raise |-> TRUE, text |-> <<>>]}

\* asyncio.run(main_async()) suspended in the first perform_search
InitCompare ==
    /\ active_connections = <<>>
    /\ wsState = [w \in WS |-> "new"]
    /\ regFault = "none"
    /\ pc = [t \in Tasks |-> "idle"]
    /\ payload = [t \in Tasks |-> NoPayload]
    /\ result = [t \in Tasks |-> "None"]
    /\ loopIdx = [t \in Tasks |-> 0]
    /\ bc = [t \in Tasks |-> NoBc]
    /\ events = [t \in Tasks |-> <<>>]
    /\ trace = [t \in Tasks |-> <<>>]
    /\ faulted = [t \in Tasks |-> {}]
    /\ response = [t \in Tasks |-> "none"]
    /\ sessions = [t \in Tasks |-> <<>>]
    /\ \E task \in {"shopping", "food"} :
          cli = [pc |-> "search", task |-> task,
                 started |-> next_search(<<>>, <<>>, Platforms(task)),
                 outputs |-> <<>>, results |-> <<>>, out |-> <<>>, raised |-> FALSE]

NextCompare == \E o \in AgentOutcomes : main_async(o)

SpecCompare == InitCompare /\ [][NextCompare]_vars

\* ------------------------------------------------------- parse_price alone

MaxStrLen == 3

PriceChars == {"0", "7", ",", ".", " ", "$"}

RECURSIVE Strings(_)
Strings(n) ==
    IF n = 0 THEN {<<>>}
    ELSE LET shorter == Strings(n - 1)
         IN shorter \cup {Append(x, c) : x \in {y \in shorter : Len(y) = n - 1},
                                          c \in PriceChars}

\* a numeral of FloatDigits + 1 digits
LongNumeral == [i \in 1..(FloatDigits + 1) |-> "9"]

\* the strings parse_price is called with
PriceStrings == Strings(MaxStrLen) \cup {LongNumeral}

InitPrice ==
    /\ active_connections = <<>>
    /\ wsState = [w \in WS |-> "new"]
    /\ regFault = "none"
    /\ pc = [t \in Tasks |-> "idle"]
    /\ payload = [t \in Tasks |-> NoPayload]
    /\ result = [t \in Tasks |-> "None"]
    /\ loopIdx = [t \in Tasks |-> 0]
    /\ bc = [t \in Tasks |-> NoBc]
    /\ events = [t \in Tasks |-> <<>>]
    /\ trace = [t \in Tasks |-> <<>>]
    /\ faulted = [t \in Tasks |-> {}]
    /\ response = [t \in Tasks |-> "none"]
    /\ sessions = [t \in Tasks |-> <<>>]
    /\ \E s \in PriceStrings : cli = [pc |-> "parse_price", price_str |-> s, ret |-> <<>>]

\* parse_price(price_str) returns
call_parse_price ==
    /\ cli.pc = "parse_price"
    /\ cli' = [cli EXCEPT !.pc = "returned", !.ret = <<parse_price(cli.price_str)>>]
    /\ UNCHANGED <<active_connections, wsState, regFault, pc, payload, result,
                   loopIdx, bc, events, trace, faulted, response, sessions>>

NextPrice == call_parse_price

SpecPrice == InitPrice /\ [][NextPrice]_vars

\* ----------------------------------------------------------------- claims

SessionPcs == {"amazon", "flipkart", "rides", "pharmacy", "invite", "order", "logistics"}

InSession(t) == pc[t] \in SessionPcs

\* C1: across any interleaving of task submissions at most one automation
\* session is in progress at any time.
C1_OneSessionAtATime == Cardinality({t \in Tasks : InSession(t)}) <= 1

TerminalCount(t) == Cardinality({k \in 1..Len(events[t]) : events[t][k] \in Terminal})

\* C2: every task broadcasts at most one terminal event and never ends in an
\* exception; until run_agent_task has ended it can always take its next step
\* once the await it is suspended in is over; and when it has ended it has
\* broadcast exactly one terminal event, as its last event.
C2_ExactlyOneTerminal ==
    \A t \in Tasks :
        /\ TerminalCount(t) <= 1
        /\ pc[t] # "crashed"
        /\ pc[t] \notin {"idle", "done"} => ENABLED TaskStep(t)
        /\ pc[t] = "done" => /\ TerminalCount(t) = 1
                             /\ events[t][Len(events[t])] \in Terminal

C2_Witness ==
    \E t \in Tasks : pc[t] = "done" /\ events[t][Len(events[t])] = "error"

\* the step in which a broadcast call of task t returns
Returns(t) ==
    /\ pc[t] = "bcast"
    /\ pc'[t] # "bcast" \/ Len(bc'[t].queue) < Len(bc[t].queue)

\* C3: when a subscriber was removed while a broadcast call was suspended in a
\* send, every subscriber registered from the call to its return has had a
\* send begun to it when the call returns, and the call returns normally.
C3_RemainingSubscribersReceive ==
    [][\A t \in Tasks :
         (Returns(t) /\ ~(bc[t].start \subseteq Range(active_connections)))
         => /\ (bc[t].start \cap Range(active_connections)) \subseteq bc[t].att
            /\ pc'[t] # "crashed"]_vars

\* C6: disconnect called for a connection that is not registered raises no fault.
C6_DisconnectAbsentIsSafe == regFault = "none"

\* C7: a broadcast call during which the registry did not change has begun a
\* send to every registered subscriber when it returns, also when a send
\* raised, and it returns normally.
C7_BroadcastReachesAll ==
    [][\A t \in Tasks :
         (Returns(t) /\ ~bc[t].changed)
         => /\ bc[t].att = Range(active_connections)
            /\ pc'[t] # "crashed"]_vars

C7_Witness ==
    \E t \in Tasks :
        /\ pc[t] = "bcast"
        /\ bc[t].failed
        /\ ~bc[t].changed
        /\ Len(active_connections) >= 2
        /\ bc[t].idx = Len(active_connections)

IsPrefix(s, e) == Len(s) <= Len(e) /\ \A k \in 1..Len(s) : s[k] = e[k]

\* the declared order Invite* -> CollectPreferences -> Order* -> Logistics*
DeclaredOrder(nG, nL) ==
    [k \in 1..nG |-> <<"invite", k>>] \o <<<<"prefs", 0>>>>
    \o [k \in 1..MenuLen |-> <<"order", k>>] \o [k \in 1..nL |-> <<"logistics", k>>]

StagePcs == {"invite", "prefs", "order", "logistics"}

\* the stage iterations begun so far: the completed ones and the one running
Begun(t) ==
    IF pc[t] \in StagePcs THEN Append(trace[t], <<pc[t], loopIdx[t]>>) ELSE trace[t]

IsWorkflow(t) == payload[t].persona \in {"main", "coordinator"}

C10_StrictStageOrder ==
    \A t \in Tasks :
        IsWorkflow(t) =>
            IsPrefix(Begun(t), DeclaredOrder(payload[t].nGuests, payload[t].nLogistics))

C10_Witness ==
    /\ pc[1] = "logistics"
    /\ payload[1].nGuests >= 2
    /\ Len(trace[1]) = payload[1].nGuests + 1 + MenuLen

\* C4: when the agent's run raises during a search session, the session hands
\* back a failed result and the fault does not leave it.
C4_SearchFaultBecomesFailedResult ==
    cli.raised =>
        /\ cli.pc # "crashed"
        /\ cli.results # <<>>
        /\ LET r == cli.results[Len(cli.results)]
           IN r.status = "failed" /\ r.items = <<>> /\ r.best_item = <<>>

\* C5: the comparison workflow never ends without its summary, and the
\* summary it prints carries the category, the verdict and both results.
C5_SummaryAlwaysEmitted ==
    /\ cli.pc \in {"none", "search", "done"}
    /\ cli.pc = "done" =>
          /\ Len(cli.out) = 1
          /\ cli.out[1].query = "query"
          /\ cli.out[1].category = cli.task
          /\ Len(cli.out[1].details) = 2

\* C8: the winner of a finished comparison follows the documented rule.
C8_WinnerRule ==
    cli.pc = "done" =>
        LET out == cli.out[1]
            a == out.details[1].best_item
            b == out.details[2].best_item
            A == Platforms(cli.task)[1]
            B == Platforms(cli.task)[2]
            w == out.winner_platform
            kind == out.recommendation.kind
        IN /\ (a = <<>> /\ b = <<>>) => (w = "None" /\ kind = "none")
           /\ (a # <<>> /\ b = <<>>) =>
                 (w = A /\ out.recommendation = [kind |-> "only found on", platform |-> A])
           /\ (a = <<>> /\ b # <<>>) =>
                 (w = B /\ out.recommendation = [kind |-> "only found on", platform |-> B])
           /\ (a # <<>> /\ b # <<>>) =>
                 LET pa == a[1].numeric_price
                     pb == b[1].numeric_price
                     ra == a[1].numeric_rating
                     rb == b[1].numeric_rating
                 IN /\ pa < pb => w = A
                    /\ pb < pa => w = B
                    /\ (pa = pb /\ ra > rb) => w = A
                    /\ (pa = pb /\ rb > ra) => w = B
                    /\ (pa = pb /\ ra = rb) => w = B
                    /\ out.recommendation.platform = w
                    /\ kind = IF pa = pb THEN "better rating" ELSE "cheaper"

C8_Witness ==
    /\ cli.pc = "done"
    /\ cli.out[1].details[1].best_item # <<>>
    /\ cli.out[1].details[2].best_item # <<>>
    /\ cli.out[1].details[1].best_item[1].numeric_price
         = cli.out[1].details[2].best_item[1].numeric_price
    /\ cli.out[1].details[1].best_item[1].numeric_rating
         = cli.out[1].details[2].best_item[1].numeric_rating
    /\ cli.out[1].winner_platform = Platforms(cli.task)[2]

\* C11: in the comparison workflow the platform sessions are started in the
\* declared order, each only when every session started before it has
\* returned, and the summary is computed only when all have returned.
C11_PlatformsOneAfterAnother ==
    cli.pc # "none" =>
        /\ IsPrefix(cli.started, Platforms(cli.task))
        /\ Len(cli.started) <= Len(cli.results) + 1
        /\ cli.out # <<>> => /\ Len(cli.results) = Len(Platforms(cli.task))
                             /\ cli.started = Platforms(cli.task)

C11_Witness ==
    /\ cli.pc = "search"
    /\ Len(cli.started) = 2
    /\ Len(cli.results) = 1

\* C12: a session result has status success exactly when the decode of the
\* fence-stripped text succeeded, whatever the decoded value holds.
C12_SuccessIffDecoded ==
    \A k \in 1..Len(cli.results) :
        cli.results[k].status = "success" <=> json_loads_returns(cli.outputs[k])

\* C13: every text the agent handed back has its result, carrying that text
\* as raw_response; when decoding or processing the text raised, the result
\* has status failed, no items and no best_item.
C13_ParseFaultIsCaught ==
    /\ Len(cli.results) = Len(cli.outputs)
    /\ \A k \in 1..Len(cli.results) :
          LET r == cli.results[k]
          IN /\ r.raw_response = cli.outputs[k]
             /\ parse_raises(cli.outputs[k]) =>
                   r.status = "failed" /\ r.items = <<>> /\ r.best_item = <<>>

C13_Witness ==
    /\ cli.pc = "done"
    /\ cli.outputs[1] = <<Chunk("array_of_numbers")>>
    /\ cli.outputs[2] = <<Array(<<>>), Chunk("prose")>>
    /\ cli.results[1].status = "failed"
    /\ cli.results[2].status = "failed"

\* C14: in every session result each item has a numeric_price above zero,
\* best_item is absent exactly when there are no items, and otherwise it is
\* one of the items, none of the items is cheaper, and none of the items of
\* its price is rated higher.
C14_ItemsAndBest ==
    \A k \in 1..Len(cli.results) :
        LET r == cli.results[k]
        IN /\ \A i \in 1..Len(r.items) : r.items[i].numeric_price > 0
           /\ r.best_item = <<>> <=> r.items = <<>>
           /\ r.items # <<>> =>
                 LET b == r.best_item[1]
                 IN /\ b \in Range(r.items)
                    /\ \A i \in 1..Len(r.items) :
                          /\ r.items[i].numeric_price >= b.numeric_price
                          /\ r.items[i].numeric_price = b.numeric_price =>
                                r.items[i].numeric_rating <= b.numeric_rating

C14_Witness ==
    \E k \in 1..Len(cli.results) :
        /\ Len(cli.outputs[k]) = 1
        /\ Len(cli.outputs[k][1].items) = 2
        /\ cli.outputs[k][1].items[1].title = "a"
        /\ cli.outputs[k][1].items[2].title = "b"
        /\ cli.results[k].best_item # <<>>
        /\ cli.results[k].best_item[1].title = "b"

\* the terminal event of task t and the result it carries
TerminalOf(t) == [event |-> events[t][Len(events[t])], result |-> result[t]]

\* result = {"status": "success", "message": "Event Orchestration Complete"}
\* broadcast as "Task Complete"
OrchestrationComplete == [event |-> "complete", result |-> "success"]

\* C15: the terminal outcome of a coordinator task in which a session failed
\* differs from the outcome of a task in which every session succeeded; the
\* failed session is taken from the invite stage, whose sessions
\* _run_whatsapp_task runs itself.
C15_OutcomeSummarisesStages ==
    \A t \in Tasks :
        (payload[t].persona = "coordinator" /\ pc[t] = "done") =>
            /\ faulted[t] = {} => TerminalOf(t) = OrchestrationComplete
            /\ "invite" \in faulted[t] => TerminalOf(t) # OrchestrationComplete

\* C16: when one session is handed an item list and the other the same item
\* list wrapped in a fenced block carrying the json tag, the two results have
\* the same status, the same items and the same best_item.
C16_FenceRoundTrip ==
    \A j, k \in 1..Len(cli.results) :
        (cli.outputs[j] \in ItemListTexts /\ cli.outputs[k] = Wrap(cli.outputs[j])) =>
            /\ cli.results[k].status = cli.results[j].status
            /\ cli.results[k].items = cli.results[j].items
            /\ cli.results[k].best_item = cli.results[j].best_item

\* C17: POST /task has returned its accepted response from the moment the
\* workflow of the task exists, before the workflow has run its first line,
\* and the response, once given, never changes.
C17_AcceptedBeforeWorkflowRuns ==
    /\ \A t \in Tasks : pc[t] # "idle" <=> response[t] = "accepted"
    /\ \A t \in Tasks : response[t] \in {"none", "accepted"}

C17_Witness ==
    \E t \in Tasks :
        /\ response[t] = "accepted"
        /\ pc[t] = "amazon"
        /\ sessions[t] = <<>>

\* C18: in an event workflow every invite session is followed by the
\* cooldown, whether it succeeded or failed, and the invite session of a
\* guest after the first starts only in the step in which the cooldown that
\* followed the guest before has completed.
C18_CooldownBetweenInvites ==
    [][\A t \in Tasks :
         IsWorkflow(t) =>
            /\ (pc[t] = "invite" /\ pc'[t] # "invite") =>
                  (pc'[t] = "cooldown" /\ loopIdx'[t] = loopIdx[t])
            /\ (pc'[t] = "invite" /\ loopIdx'[t] >= 2
                   /\ <<pc[t], loopIdx[t]>> # <<pc'[t], loopIdx'[t]>>) =>
                  (pc[t] = "cooldown" /\ loopIdx[t] = loopIdx'[t] - 1)]_vars

C18_Witness ==
    /\ pc[1] = "invite"
    /\ loopIdx[1] = 2
    /\ "invite" \in faulted[1]

\* C20: a shopper task runs the Amazon session first and the Flipkart session
\* only after an Amazon result with status failed, never a third session; it
\* gives its terminal event only after an Amazon result that has not failed
\* or after the Flipkart session, and the event carries the result of the
\* last session run.
C20_ShopperFallback ==
    \A t \in Tasks :
        payload[t].persona = "shopper" =>
            LET ss == sessions[t]
            IN /\ Len(ss) <= 2
               /\ Len(ss) >= 1 => ss[1].platform = "Amazon"
               /\ Len(ss) = 2 => ss[2].platform = "Flipkart"
               /\ pc[t] = "amazon" => Len(ss) = 0
               /\ pc[t] = "flipkart" => Len(ss) = 1
               /\ (pc[t] = "flipkart" \/ Len(ss) = 2) => ss[1].status = "failed"
               /\ TerminalCount(t) = 1 =>
                     /\ Len(ss) >= 1
                     /\ ss[1].status = "failed" <=> Len(ss) = 2
                     /\ TerminalOf(t) = [event |-> "complete", result |-> ss[Len(ss)].status]

C20_Witness ==
    \E t \in Tasks :
        /\ pc[t] = "done"
        /\ Len(sessions[t]) = 2
        /\ sessions[t][2].status = "success"
        /\ result[t] = "success"

HasDigit(s) == \E i \in 1..Len(s) : IsDigit(s[i])

\* C19: parse_price returns a finite number, zero or above, for a string that
\* holds a digit, and +infinity for a string that holds none.
C19_ParsePriceTotal ==
    cli.pc = "returned" =>
        LET r == cli.ret[1]
        IN IF HasDigit(cli.price_str) THEN r >= 0 /\ r < Inf ELSE r = Inf
====
